---- MODULE Spec2Model ----
(***************************************************************************)
(* State-machine model of the nodecast-tv player component                 *)
(* (public/js/components/VideoPlayer.js): the VideoPlayer object, the      *)
(* <video> element it drives, the hls.js engine instances it creates, the  *)
(* play() promises whose rejection handlers it registers, and the engine   *)
(* events its handlers react to.                                           *)
(*                                                                         *)
(* hls.js and the <video> element are the environment: an engine instance  *)
(* delivers events only while it is live (not destroyed) and has a source  *)
(* loaded; a play() promise may settle at any later time, in particular    *)
(* after the pause()/load() of a following stop() rejected it.             *)
(*                                                                         *)
(* The module also models the server's transcode route (GET /api/transcode)*)
(* for one request: the handler, the ffmpeg child process it spawns, the   *)
(* response it pipes the process's output into, and the client connection. *)
(*                                                                         *)
(* Last comes the server's JSON store (server/db.js): the database file,   *)
(* the temp file, the write queue of saveDb, and the store operations of   *)
(* concurrent requests, which interleave at every await.                   *)
(***************************************************************************)
EXTENDS Integers, Sequences, FiniteSets, TLC

\* ------------------------------------------------------------------ bounds
MaxPlays == 2        \* play requests per behaviour
MaxErrors == 2       \* engine error events per play request
MaxFrags == 5        \* fragment-change events per play request
MaxTime == 3         \* largest play position (seconds) the model follows
MaxChunks == 2       \* chunks the transcoder writes to its standard output
MaxStderr == 3       \* chunks the transcoder writes to its standard error
MaxOps == 3          \* store operations called per behaviour
MaxFailures == 1     \* file-system failures (writeFile or rename) per behaviour

\* ------------------------------------------------------------------- URLs
\* A URL is a sequence of tokens.  A token is [t |-> text, e |-> n]: n is the
\* number of times encodeURIComponent has rewritten it.  Tokens made only of
\* unreserved characters (letters, digits, '.') are left alone by the
\* encoding; the others ("https://", "/live/x", "/api/proxy/stream?url=")
\* are rewritten (':' '/' '?' '=' become %XX, '%' becomes %25).
Unreserved == {"example.com", "pluto.tv", ".m3u8", ".mp4", "undefined"}

Tok(text) == [t |-> text, e |-> 0]

EncodeTok(tok) == IF tok.t \in Unreserved THEN tok ELSE [tok EXCEPT !.e = @ + 1]

encodeURIComponent(url) == [i \in 1..Len(url) |-> EncodeTok(url[i])]

ProxyPrefix == Tok("/api/proxy/stream?url=")

TranscodePrefix == Tok("/api/transcode?url=")

getProxiedUrl(url) == <<ProxyPrefix>> \o encodeURIComponent(url)

getTranscodeUrl(url) == <<TranscodePrefix>> \o encodeURIComponent(url)

\* String.prototype.includes for the needles the player looks for.  A needle
\* is found in a token that was never rewritten and contains it.
TokContains(text, needle) ==
  \/ text = needle
  \/ text = ".m3u8" /\ needle = "m3u8"

Includes(url, needle) ==
  \E i \in 1..Len(url) : url[i].e = 0 /\ TokContains(url[i].t, needle)

EmptyUrl == <<>>

\* The stream URLs a play request may carry.
PlainHls == <<Tok("https://"), Tok("example.com"), Tok("/live/ch1"), Tok(".m3u8")>>

PlutoHls == <<Tok("https://"), Tok("pluto.tv"), Tok("/live/x"), Tok(".m3u8")>>

PlainFile == <<Tok("https://"), Tok("example.com"), Tok("/vod/movie"), Tok(".mp4")>>

StreamUrls == {PlainHls, PlutoHls, PlainFile}

\* The streamUrl of a channel that carries none: the value undefined, which
\* encodeURIComponent and string concatenation turn into the text "undefined".
UndefinedUrl == <<Tok("undefined")>>

\* What a caller may hand to play(channel, streamUrl).
PlayInputs == StreamUrls \cup {UndefinedUrl}

\* The channel a stream URL belongs to (play(channel, streamUrl)).
ChannelOf(url) ==
  IF url = PlainHls THEN "news"
  ELSE IF url = PlutoHls THEN "pluto"
  ELSE IF url = PlainFile THEN "movie" ELSE "nourl"

NoChannel == "null"

\* ------------------------------------------------------------------ state
VARIABLES
  hlsSupported,      \* Hls.isSupported() in this browser
  nativeHls,         \* video.canPlayType('application/vnd.apple.mpegurl') is probably/maybe
  settings,          \* this.settings: [forceProxy, forceTranscode]
  hls,               \* this.hls: an engine id, or 0 for null
  engines,           \* live (constructed, not destroyed) engine instances: [id, kind, source, attached]
  created,           \* number of engine instances constructed so far
  currentChannel,    \* this.currentChannel
  currentUrl,        \* this.currentUrl
  isUsingProxy,      \* this.isUsingProxy
  lastDiscontinuity, \* this.lastDiscontinuity
  video,             \* the <video> element: [src, paused, currentTime]
  promises,          \* pending video.play() promises with their rejection handlers
  overlay,           \* this.overlay: "prompt" (select a channel), "hidden" or "error"
  effects,           \* what play() did for the current request: [nowPlaying, epg, channelChanged] counts
  \* the transcode route, for one request
  phase,             \* where the handler left the request: "idle", "rejected", "spawnFailed", "piping"
  query,             \* req.query.url: "missing", "empty" or "present"
  res,               \* the response: [statusCode, headersSent, body, bytes, finished]
  ffmpeg,            \* the child process: [state, code, signals, stdoutOpen]
  conn,              \* the client connection: "none", "open" or "closed"
  stderrBuffer,      \* stderrBuffer, in chunks
  calls,             \* history: [spawn, kill, handlers]: calls made and handlers registered
  \* the JSON store
  dbFile,            \* db.json: Missing, Partial or Complete(db)
  tmpFile,           \* db.json.tmp: Missing, Partial or Complete(db)
  writeQueue,        \* the chain of saveDb writes not finished yet: Seq([caller, data, seq, st])
  ops,               \* the store operation each request is in: [pc, kind]
  hist,              \* history of the store operations and writes
  \* history variables (not program state)
  session,           \* number of play requests made
  sess,              \* the current play request: [active, url, forceProxy, forceTranscode]
  loads,             \* URLs loaded since the current play request: Seq([by, url, eng])
  errs,              \* engine events of the current play request: [n, netFatal, recovers]
  frags              \* fragment changes since attach: [n, seen, seeks, allPlaying]; seen and
                     \* seeks are followed while every counter came at a playing, non-zero position

vars == <<hlsSupported, nativeHls, settings, hls, engines, created, currentChannel,
          currentUrl, isUsingProxy, lastDiscontinuity, video, promises, overlay, effects,
          phase, query, res, ffmpeg, conn, stderrBuffer, calls,
          dbFile, tmpFile, writeQueue, ops, hist,
          session, sess, loads, errs, frags>>

platform == <<hlsSupported, nativeHls>>

\* The variables of the player and those of the transcode route: the two run
\* in different processes and share no state.
player == <<hlsSupported, nativeHls, settings, hls, engines, created, currentChannel,
            currentUrl, isUsingProxy, lastDiscontinuity, video, promises, overlay, effects,
            session, sess, loads, errs, frags>>

route == <<phase, query, res, ffmpeg, conn, stderrBuffer, calls>>

\* The variables of the JSON store, a module of the server process.
store == <<dbFile, tmpFile, writeQueue, ops, hist>>

\* this.lastDiscontinuity before any assignment (init() found no Hls support).
Undefined == -2

NoSess == [active |-> FALSE, url |-> EmptyUrl, forceProxy |-> FALSE, forceTranscode |-> FALSE]

NoErrs == [n |-> 0, netFatal |-> 0, recovers |-> 0]

NoFrags == [n |-> 0, seen |-> <<>>, seeks |-> 0, allPlaying |-> TRUE]

\* The response before the handler touched it: Node's default status, nothing sent.
NoResponse == [statusCode |-> 200, headersSent |-> FALSE, body |-> "none", bytes |-> 0, finished |-> FALSE]

\* let ffmpeg; (no process)
NoProcess == [state |-> "none", code |-> "none", signals |-> 0, stdoutOpen |-> FALSE]

NoCalls == [spawn |-> 0, kill |-> 0, handlers |-> FALSE]

\* The requests the server handles at the same time.
Procs == {1, 2}

\* A request that is in no store operation.
Idle == [pc |-> "idle", kind |-> "none"]

\* getDefaultSettings(), restricted to the two settings the player reads.
getDefaultSettings == [forceProxy |-> FALSE, forceTranscode |-> FALSE]

\* The default database loadDb returns when there is no file to read.
EmptyDb ==
  [sources |-> <<>>, hiddenItems |-> <<>>, favorites |-> <<>>,
   settings |-> getDefaultSettings, users |-> <<>>, nextId |-> 1]

\* A file of the data directory: missing, holding a part of a JSON text (a
\* write in progress or broken off), or holding the JSON text of a database.
Missing == [st |-> "ENOENT", data |-> EmptyDb]

Partial == [st |-> "partial", data |-> EmptyDb]

Complete(db) == [st |-> "complete", data |-> db]

NoHist ==
  [calls |-> 0, saves |-> 0, order |-> <<>>, failures |-> 0,
   badLoads |-> 0, raced |-> FALSE, thrown |-> 0, error |-> "none", rejected |-> FALSE, applied |-> <<>>,
   lastData |-> EmptyDb, lastFailed |-> FALSE]

\* Nothing displayed, fetched or announced yet.
NoEffects == [nowPlaying |-> 0, epg |-> 0, channelChanged |-> 0]

\* loadSettings(): the defaults, or what the settings page saved earlier.
SettingsValues == [forceProxy : BOOLEAN, forceTranscode : BOOLEAN]

\* new Hls(config) in init(): constructed, no source loaded, no media attached.
InitEngine == [id |-> 1, kind |-> "init", source |-> EmptyUrl, attached |-> FALSE]

\* The player after constructor() and init(), the server with no transcode
\* request and no store operation yet; whatever the database file holds.
Started ==
  /\ hlsSupported \in BOOLEAN
  /\ nativeHls \in BOOLEAN
  /\ settings \in SettingsValues
  /\ hls = IF hlsSupported THEN 1 ELSE 0
  /\ engines = IF hlsSupported THEN {InitEngine} ELSE {}
  /\ created = IF hlsSupported THEN 1 ELSE 0
  /\ currentChannel = NoChannel
  /\ currentUrl = EmptyUrl
  /\ isUsingProxy = FALSE
  /\ lastDiscontinuity = IF hlsSupported THEN -1 ELSE Undefined
  /\ video = [src |-> EmptyUrl, paused |-> TRUE, currentTime |-> 0]
  /\ promises = {}
  /\ overlay = "prompt"
  /\ effects = NoEffects
  /\ phase = "idle"
  /\ query = "missing"
  /\ res = NoResponse
  /\ ffmpeg = NoProcess
  /\ conn = "none"
  /\ stderrBuffer = 0
  /\ calls = NoCalls
  /\ tmpFile = Missing
  /\ writeQueue = <<>>
  /\ ops = [p \in Procs |-> Idle]
  /\ hist = NoHist
  /\ session = 0
  /\ sess = NoSess
  /\ loads = <<>>
  /\ errs = NoErrs
  /\ frags = NoFrags

\* constructor() followed by init(), on a server that has no database file yet.
Init == Started /\ dbFile = Missing

\* ------------------------------------------------------------ environment
\* Hls.ErrorTypes and the error details hls.js reports with each of them.
NETWORK_ERROR == "networkError"

MEDIA_ERROR == "mediaError"

OTHER_ERROR == "otherError"

ErrorKinds ==
  { <<NETWORK_ERROR, "manifestLoadError">>,
    <<MEDIA_ERROR, "fragParsingError">>,
    <<MEDIA_ERROR, "bufferStalledError">>,
    <<MEDIA_ERROR, "bufferAppendError">>,
    <<OTHER_ERROR, "internalException">> }

\* Continuity counters of the fragments of a stream (hls.js: frag.cc >= 0).
CCValues == {0, 1, 2}

NullFrag == [isNull |-> TRUE, sn |-> "none", cc |-> Undefined]

FragValues ==
  {NullFrag} \cup
  [isNull : {FALSE}, sn : {"initSegment", "media"}, cc : CCValues \cup {Undefined}]

\* The engine this.hls points to.
Engine(id) == CHOOSE e \in engines : e.id = id

\* An engine instance delivers events while it is live and has a source.
Delivers(id) == \E e \in engines : e.id = id /\ e.source # EmptyUrl

\* A pending play() promise belongs to a superseded session once a later
\* play request or a stop() has been made.
Stale(p) == p.session # session \/ ~sess.active

\* video.play(): the element leaves the paused state; the promise is pending.
VideoPlay(v) == [v EXCEPT !.paused = FALSE]

\* video.src = url: the element loads the new resource from position 0.
VideoSetSrc(v, url) == [src |-> url, paused |-> TRUE, currentTime |-> 0]

\* ---------------------------------------------------------------- stop()
\* A stop() that drops the reference without destroying the instance.
DestroyHls_Leak(engs) == engs

\* if (this.hls) { this.hls.destroy(); this.hls = null; }
DestroyHls(engs) == {e \in engs : e.id # hls}

\* this.video.pause(); this.video.src = ''; this.video.load();
StoppedVideo == [src |-> EmptyUrl, paused |-> TRUE, currentTime |-> 0]

Stop ==
  /\ sess.active
  /\ engines' = DestroyHls(engines)
  /\ hls' = 0
  /\ video' = StoppedVideo
  /\ sess' = [sess EXCEPT !.active = FALSE]
  /\ UNCHANGED <<platform, route, store, overlay, effects, settings, created, currentChannel, currentUrl, isUsingProxy,
                 lastDiscontinuity, promises, session, loads, errs, frags>>

\* ---------------------------------------------------------------- play()
proxyRequiredDomains == {"pluto.tv"}

\* A resolver that honours the setting alone.
needsProxy_FlagOnly(streamUrl) == settings.forceProxy

\* this.settings.forceProxy || proxyRequiredDomains.some(d => streamUrl.includes(d))
needsProxy(streamUrl) ==
  settings.forceProxy \/ \E domain \in proxyRequiredDomains : Includes(streamUrl, domain)

looksLikeHls(finalUrl) ==
  \/ Includes(finalUrl, ".m3u8")
  \/ Includes(finalUrl, "m3u8")
  \/ (~Includes(finalUrl, ".mp4") /\ ~Includes(finalUrl, ".mkv") /\ ~Includes(finalUrl, ".avi"))

\* this.hls = new Hls(...); this.hls.loadSource(finalUrl); this.hls.attachMedia(this.video);
NewEngine(id, finalUrl) == [id |-> id, kind |-> "play", source |-> finalUrl, attached |-> TRUE]

\* The rejection handlers play() hands to video.play().catch(...).
LogHandler == [handler |-> "log", streamUrl |-> EmptyUrl, session |-> session + 1]

NativeHandler(streamUrl) == [handler |-> "nativeProxy", streamUrl |-> streamUrl, session |-> session + 1]

\* The force-transcode branch: the transcode URL goes straight into the element.
PlayTranscoded(streamUrl) ==
  LET transcodeUrl == getTranscodeUrl(streamUrl) IN
  /\ currentUrl' = transcodeUrl
  /\ video' = VideoPlay(VideoSetSrc(StoppedVideo, transcodeUrl))
  /\ promises' = promises \cup {LogHandler}
  /\ engines' = DestroyHls(engines)
  /\ hls' = 0
  /\ loads' = << [by |-> "video", url |-> transcodeUrl, eng |-> 0] >>
  /\ UNCHANGED <<created, isUsingProxy, lastDiscontinuity>>

\* Priority 1: hls.js.
PlayHlsJs(finalUrl) ==
  /\ created' = created + 1
  /\ engines' = DestroyHls(engines) \cup {NewEngine(created + 1, finalUrl)}
  /\ hls' = created + 1
  /\ lastDiscontinuity' = -1
  /\ video' = StoppedVideo
  /\ loads' = << [by |-> "engine", url |-> finalUrl, eng |-> created + 1] >>
  /\ UNCHANGED promises

\* Priority 2 (native HLS) and priority 3 (direct playback): the element.
PlayElement(finalUrl, handler) ==
  /\ engines' = DestroyHls(engines)
  /\ hls' = 0
  /\ video' = VideoPlay(VideoSetSrc(StoppedVideo, finalUrl))
  /\ promises' = promises \cup {handler}
  /\ loads' = << [by |-> "video", url |-> finalUrl, eng |-> 0] >>
  /\ UNCHANGED <<created, lastDiscontinuity>>

\* proxyRequiredDomains.some(domain => streamUrl.includes(domain)) is evaluated
\* when forceProxy is off: on a streamUrl that is undefined it throws a TypeError.
Throws(streamUrl) == ~settings.forceProxy /\ streamUrl = UndefinedUrl

\* A play() whose catch block swallows the exception.
ShowsError_Never(streamUrl) == FALSE

\* catch (err) { this.showError('Failed to play channel'); }
ShowsError(streamUrl) == ~settings.forceTranscode /\ Throws(streamUrl)

\* A play() whose transcode branch returns before the side effects.
SideEffects_NotTranscoded(streamUrl) ==
  IF settings.forceTranscode \/ Throws(streamUrl)
    THEN NoEffects
    ELSE [nowPlaying |-> 1, epg |-> 1, channelChanged |-> 1]

\* this.updateNowPlaying(channel); this.showNowPlayingOverlay();
\* this.fetchEpgData(channel); window.dispatchEvent(new CustomEvent('channelChanged'))
\* at the end of the transcode branch and at the end of the try block.
SideEffects(streamUrl) ==
  IF ~settings.forceTranscode /\ Throws(streamUrl)
    THEN NoEffects
    ELSE [nowPlaying |-> 1, epg |-> 1, channelChanged |-> 1]

\* The exception leaves play() after this.stop() and this.currentUrl = streamUrl.
PlayThrown(streamUrl) ==
  /\ currentUrl' = streamUrl
  /\ engines' = DestroyHls(engines)
  /\ hls' = 0
  /\ video' = StoppedVideo
  /\ loads' = <<>>
  /\ UNCHANGED <<created, isUsingProxy, lastDiscontinuity, promises>>

Play(streamUrl) ==
  /\ session < MaxPlays
  /\ currentChannel' = ChannelOf(streamUrl)
  /\ IF settings.forceTranscode
       THEN PlayTranscoded(streamUrl)
       ELSE IF Throws(streamUrl)
       THEN PlayThrown(streamUrl)
       ELSE LET finalUrl == IF needsProxy(streamUrl) THEN getProxiedUrl(streamUrl) ELSE streamUrl IN
            /\ currentUrl' = streamUrl
            /\ isUsingProxy' = needsProxy(streamUrl)
            /\ IF looksLikeHls(finalUrl) /\ hlsSupported
                 THEN PlayHlsJs(finalUrl)
                 ELSE IF nativeHls
                        THEN PlayElement(finalUrl, NativeHandler(streamUrl))
                        ELSE PlayElement(finalUrl, LogHandler)
  /\ overlay' = IF ShowsError(streamUrl) THEN "error" ELSE "hidden"
  /\ effects' = SideEffects(streamUrl)
  /\ session' = session + 1
  /\ sess' = [active |-> TRUE, url |-> streamUrl, forceProxy |-> settings.forceProxy,
               forceTranscode |-> settings.forceTranscode]
  /\ errs' = NoErrs
  /\ frags' = NoFrags
  /\ UNCHANGED <<platform, route, store, settings>>

\* ------------------------------------------- play(): the ERROR handler
\* CORS issues can manifest as NETWORK_ERROR or MEDIA_ERROR with fragParsingError.
isCorsLikely(type, details) ==
  type = NETWORK_ERROR \/ (type = MEDIA_ERROR /\ details = "fragParsingError")

\* A handler that retries via the proxy whether or not it is already in use.
RetriesViaProxy_Always(type, details) == isCorsLikely(type, details)

\* if (isCorsLikely && !this.isUsingProxy)
RetriesViaProxy(type, details) == isCorsLikely(type, details) /\ ~isUsingProxy

\* A handler that forgets to record that the proxy is now in use.
ProxyFlagAfterRetry_NotSet == isUsingProxy

\* this.isUsingProxy = true;
ProxyFlagAfterRetry == TRUE

\* An escalation that tears the reporting instance down.
LoadSource_Teardown(engs, url) == {e \in engs : e.id # hls}

\* this.hls.loadSource(url); this.hls.startLoad(): the instance this.hls points
\* to drops its source for the new one and stays attached.
LoadSource(engs, url) ==
  {IF e.id = hls THEN [e EXCEPT !.source = url] ELSE e : e \in engs}

\* A handler that recovers from the first fatal media error only.
RecoversMediaError_Once(type, details) ==
  ~RetriesViaProxy(type, details) /\ type = MEDIA_ERROR /\ errs.recovers = 0

\* else if (data.type === Hls.ErrorTypes.MEDIA_ERROR) this.hls.recoverMediaError();
RecoversMediaError(type, details) ==
  ~RetriesViaProxy(type, details) /\ type = MEDIA_ERROR

\* if (!this.video.paused && this.video.currentTime > 0)
ActivelyPlaying == ~video.paused /\ video.currentTime > 0

\* A stall handler that seeks whatever the element is doing.
SeeksOnStall_Always(type, details) ==
  type = MEDIA_ERROR /\ details = "bufferStalledError"

\* The non-fatal branch: a stalled buffer is answered with a seek of one second.
SeeksOnStall(type, details) ==
  type = MEDIA_ERROR /\ details = "bufferStalledError" /\ ActivelyPlaying

\* What hls.js does to the element when a source is loaded into an attached
\* instance: it may re-attach the media, which resets the element.
AfterReload(v) == {v, [v EXCEPT !.paused = TRUE, !.currentTime = 0]}

HlsError(fatal, type, details) ==
  /\ hls # 0
  /\ Delivers(hls)
  /\ errs.n < MaxErrors
  /\ video.currentTime < MaxTime
  /\ IF fatal
       THEN IF RetriesViaProxy(type, details)
              THEN /\ isUsingProxy' = ProxyFlagAfterRetry
                   /\ engines' = LoadSource(engines, getProxiedUrl(currentUrl))
                   /\ loads' = Append(loads, [by |-> "engine", url |-> getProxiedUrl(currentUrl), eng |-> hls])
                   /\ video' \in AfterReload(video)
              ELSE UNCHANGED <<isUsingProxy, engines, loads, video>>
       ELSE /\ video' = IF SeeksOnStall(type, details)
                          THEN [video EXCEPT !.currentTime = @ + 1]
                          ELSE video
            /\ UNCHANGED <<isUsingProxy, engines, loads>>
  /\ errs' = [n |-> errs.n + 1,
               netFatal |-> errs.netFatal + (IF fatal /\ type = NETWORK_ERROR THEN 1 ELSE 0),
               recovers |-> errs.recovers +
                   (IF fatal /\ RecoversMediaError(type, details) THEN 1 ELSE 0)]
  /\ UNCHANGED <<platform, route, store, overlay, effects, settings, hls, created, currentChannel, currentUrl,
                 lastDiscontinuity, promises, session, sess, frags>>

\* ------------------------------------- play(): the FRAG_CHANGED handler
\* if (frag && frag.sn !== 'initSegment') if (frag.cc !== undefined && frag.cc !== this.lastDiscontinuity)
DiscontinuityDetected(frag) ==
  /\ ~frag.isNull
  /\ frag.sn # "initSegment"
  /\ frag.cc # Undefined
  /\ frag.cc # lastDiscontinuity

\* The handler without the first-detection skip (as init() registers it).
SeeksPastDiscontinuity_NoSkip(frag) == DiscontinuityDetected(frag) /\ ActivelyPlaying

\* if (!wasFirstDetection && !this.video.paused && this.video.currentTime > 0)
SeeksPastDiscontinuity(frag) ==
  DiscontinuityDetected(frag) /\ lastDiscontinuity # -1 /\ ActivelyPlaying

\* The event carries a continuity counter the handler looks at.
CarriesCounter(frag) == ~frag.isNull /\ frag.sn # "initSegment" /\ frag.cc # Undefined

FragChanged(frag) ==
  /\ hls # 0
  /\ Delivers(hls)
  /\ frags.n < MaxFrags
  /\ video.currentTime < MaxTime
  /\ lastDiscontinuity' = IF DiscontinuityDetected(frag) THEN frag.cc ELSE lastDiscontinuity
  /\ video' = IF SeeksPastDiscontinuity(frag)
                 THEN [video EXCEPT !.currentTime = @ + 1]
                 ELSE video
  /\ frags' = IF CarriesCounter(frag) /\ frags.allPlaying
                 THEN IF ActivelyPlaying
                        THEN [n |-> frags.n + 1,
                              seen |-> Append(frags.seen, frag.cc),
                              seeks |-> frags.seeks + (IF video'.currentTime # video.currentTime THEN 1 ELSE 0),
                              allPlaying |-> TRUE]
                        ELSE [n |-> frags.n + 1, seen |-> <<>>, seeks |-> 0, allPlaying |-> FALSE]
                 ELSE [frags EXCEPT !.n = @ + 1]
  /\ UNCHANGED <<platform, route, store, overlay, effects, settings, hls, engines, created, currentChannel, currentUrl,
                 isUsingProxy, promises, session, sess, loads, errs>>

\* this.hls.on(MANIFEST_PARSED, () => this.video.play().catch(log))
ManifestParsed ==
  /\ hls # 0
  /\ Delivers(hls)
  /\ video' = VideoPlay(video)
  /\ promises' = promises \cup {[handler |-> "log", streamUrl |-> EmptyUrl, session |-> session]}
  /\ UNCHANGED <<platform, route, store, overlay, effects, settings, hls, engines, created, currentChannel, currentUrl,
                 isUsingProxy, lastDiscontinuity, session, sess, loads, errs, frags>>

\* ------------------------------------------- the play() promise settles
\* The native-HLS handler: if (!this.isUsingProxy) { this.isUsingProxy = true;
\* this.video.src = this.getProxiedUrl(streamUrl); this.video.play().catch(log) }
NativeHandlerActs(p) == p.handler = "nativeProxy" /\ ~isUsingProxy

PromiseRejected(p) ==
  /\ p \in promises
  /\ IF NativeHandlerActs(p)
       THEN /\ isUsingProxy' = TRUE
            /\ video' = VideoPlay(VideoSetSrc(video, getProxiedUrl(p.streamUrl)))
            /\ promises' = (promises \ {p}) \cup
                              {[handler |-> "log", streamUrl |-> EmptyUrl, session |-> p.session]}
            /\ loads' = Append(loads, [by |-> "video", url |-> getProxiedUrl(p.streamUrl), eng |-> 0])
       ELSE /\ promises' = promises \ {p}
            /\ UNCHANGED <<isUsingProxy, video, loads>>
  /\ UNCHANGED <<platform, route, store, overlay, effects, settings, hls, engines, created, currentChannel, currentUrl,
                 lastDiscontinuity, session, sess, errs, frags>>

PromiseResolved(p) ==
  /\ p \in promises
  /\ promises' = promises \ {p}
  /\ UNCHANGED <<platform, route, store, overlay, effects, settings, hls, engines, created, currentChannel, currentUrl,
                 isUsingProxy, lastDiscontinuity, video, session, sess, loads, errs, frags>>

\* --------------------------------------------------------- the element
\* handleKeyboard, ' ' or 'k': this.video.paused ? this.video.play() : this.video.pause()
TogglePause ==
  /\ video' = [video EXCEPT !.paused = ~@]
  /\ UNCHANGED <<platform, route, store, overlay, effects, settings, hls, engines, created, currentChannel, currentUrl,
                 isUsingProxy, lastDiscontinuity, promises, session, sess, loads, errs, frags>>

HasMedia == video.src # EmptyUrl \/ \E e \in engines : e.attached /\ e.source # EmptyUrl

\* Playback advances the play position.
Tick ==
  /\ ~video.paused
  /\ HasMedia
  /\ video.currentTime < MaxTime
  /\ video' = [video EXCEPT !.currentTime = @ + 1]
  /\ UNCHANGED <<platform, route, store, overlay, effects, settings, hls, engines, created, currentChannel, currentUrl,
                 isUsingProxy, lastDiscontinuity, promises, session, sess, loads, errs, frags>>

\* The settings page writes player.settings and calls saveSettings().
UpdateSettings(s) ==
  /\ s # settings
  /\ settings' = s
  /\ UNCHANGED <<platform, route, store, overlay, effects, hls, engines, created, currentChannel, currentUrl, isUsingProxy,
                 lastDiscontinuity, video, promises, session, sess, loads, errs, frags>>

Next ==
  \/ \E u \in PlayInputs : Play(u)
  \/ Stop
  \/ \E fatal \in BOOLEAN, k \in ErrorKinds : HlsError(fatal, k[1], k[2])
  \/ ManifestParsed
  \/ \E p \in promises : PromiseRejected(p)
  \/ \E p \in promises : PromiseResolved(p)
  \/ TogglePause
  \/ Tick
  \/ \E s \in SettingsValues : UpdateSettings(s)

Spec == Init /\ [][Next]_vars

\* The player with the fragment-change events of the engine delivered too.
NextFrag ==
  \/ \E u \in PlayInputs : Play(u)
  \/ Stop
  \/ \E frag \in FragValues : FragChanged(frag)
  \/ ManifestParsed
  \/ TogglePause
  \/ Tick

InitFrag == Init /\ hlsSupported

SpecFrag == InitFrag /\ [][NextFrag]_vars

\* ======================================================= transcode route
\* GET /api/transcode?url=...  (routes/transcode.js), one request.
\*
\* The environment: the client may close the connection at any time; spawn()
\* may throw, may return a child that reports a spawn error on the next tick
\* (binary missing), or may start the process; a running process writes to
\* its standard output and standard error and may exit with any code; SIGKILL
\* ends a running process at once; what is left in the stdout pipe is still
\* delivered after the process has gone, and the pipe ends the response when
\* standard output ends.

UrlValues == {"missing", "empty", "present"}

SpawnOutcomes == {"throws", "spawnError", "started"}

\* Exit codes of a process that ends by itself ("null": ended by a signal).
ExitCodes == {"0", "1", "255"}

\* A guard that takes any url parameter that was sent, the empty one too.
UrlMissing_OnlyAbsent(u) == u = "missing"

\* if (!url)
UrlMissing(u) == u \in {"missing", "empty"}

\* res.status(500)
SpawnFailedStatus == 500

\* res.status(code).json(...): status line, headers and the JSON body go out.
JsonResponse(code) ==
  [statusCode |-> code, headersSent |-> TRUE, body |-> "json", bytes |-> 0, finished |-> TRUE]

\* spawn() returned a child: its process runs, or its spawn error is pending.
Child(outcome) ==
  [state |-> IF outcome = "started" THEN "running" ELSE "failing",
   code |-> "none", signals |-> 0, stdoutOpen |-> TRUE]

\* router.get('/', (req, res) => { ... }): the whole handler.
Request(u, outcome) ==
  /\ phase = "idle"
  /\ query' = u
  /\ conn' = "open"
  /\ IF UrlMissing(u)
       THEN /\ phase' = "rejected"
            /\ res' = JsonResponse(400)
            /\ UNCHANGED <<ffmpeg, calls>>
       ELSE IF outcome = "throws"
       THEN /\ phase' = "spawnFailed"
            /\ res' = JsonResponse(SpawnFailedStatus)
            /\ calls' = [calls EXCEPT !.spawn = @ + 1]
            /\ UNCHANGED ffmpeg
       ELSE /\ phase' = "piping"
            /\ ffmpeg' = Child(outcome)
            /\ calls' = [calls EXCEPT !.spawn = @ + 1, !.handlers = TRUE]
            /\ UNCHANGED res
  /\ UNCHANGED <<player, store, stderrBuffer>>

\* A response the client can still receive bytes on.
Writable == conn = "open" /\ ~res.finished

\* ffmpeg.stdout.pipe(res): a chunk of standard output is written to the
\* response; the first write sends the status line and the headers.
StdoutData ==
  /\ phase = "piping"
  /\ ffmpeg.stdoutOpen
  /\ ffmpeg.state \in {"running", "killed", "exited"}
  /\ res.bytes < MaxChunks
  /\ res' = IF Writable
              THEN [res EXCEPT !.headersSent = TRUE, !.body = "media", !.bytes = @ + 1]
              ELSE res
  /\ ffmpeg' = IF Writable THEN ffmpeg ELSE [ffmpeg EXCEPT !.stdoutOpen = FALSE]
  /\ UNCHANGED <<player, store, phase, query, conn, stderrBuffer, calls>>

\* Standard output ends once the process has gone: the pipe calls res.end().
StdoutEnd ==
  /\ phase = "piping"
  /\ ffmpeg.stdoutOpen
  /\ ffmpeg.state \in {"killed", "exited", "failed"}
  /\ ffmpeg' = [ffmpeg EXCEPT !.stdoutOpen = FALSE]
  /\ res' = IF Writable THEN [res EXCEPT !.headersSent = TRUE, !.finished = TRUE] ELSE res
  /\ UNCHANGED <<player, store, phase, query, conn, stderrBuffer, calls>>

\* stderrBuffer += msg
Accumulate(buffer) == buffer + 1

\* ffmpeg.stderr.on('data', ...)
StderrData ==
  /\ phase = "piping"
  /\ ffmpeg.state = "running"
  /\ stderrBuffer < MaxStderr
  /\ stderrBuffer' = Accumulate(stderrBuffer)
  /\ UNCHANGED <<player, store, phase, query, res, ffmpeg, conn, calls>>

\* A kill() that signals whatever process id the child once had.
Signalled_Always(child) == TRUE

\* child.kill(): the signal goes out while the child has a live process.
Signalled(child) == child.state = "running"

\* ffmpeg.kill('SIGKILL')
Kill(child) ==
  IF Signalled(child)
    THEN [child EXCEPT !.state = "killed", !.signals = @ + 1]
    ELSE child

\* A close handler that only logs.
CloseKills_Never == FALSE

\* req.on('close', () => { ffmpeg.kill('SIGKILL'); }) is registered.
CloseKills == calls.handlers

\* The client connection closes: the request emits 'close', once.
ClientClose ==
  /\ conn = "open"
  /\ ffmpeg.state # "failing"
  /\ conn' = "closed"
  /\ IF CloseKills
       THEN /\ ffmpeg' = Kill(ffmpeg)
            /\ calls' = [calls EXCEPT !.kill = @ + 1]
       ELSE UNCHANGED <<ffmpeg, calls>>
  /\ UNCHANGED <<player, store, phase, query, res, stderrBuffer>>

\* ffmpeg.on('exit', code => ...): the process ended by itself; the handler
\* logs the codes other than null, 0 and 255 and does nothing else.
ProcessExit(code) ==
  /\ phase = "piping"
  /\ ffmpeg.state = "running"
  /\ ffmpeg' = [ffmpeg EXCEPT !.state = "exited", !.code = code]
  /\ UNCHANGED <<player, store, phase, query, res, conn, stderrBuffer, calls>>

\* The 'exit' event of a process that SIGKILL ended: code null.
KilledExit ==
  /\ phase = "piping"
  /\ ffmpeg.state = "killed"
  /\ ffmpeg.code = "none"
  /\ ffmpeg' = [ffmpeg EXCEPT !.code = "null"]
  /\ UNCHANGED <<player, store, phase, query, res, conn, stderrBuffer, calls>>

\* An error handler that answers nothing.
ErrorResponds_Never == FALSE

\* if (!res.headersSent)
ErrorResponds == ~res.headersSent

\* ffmpeg.on('error', err => ...): the child could not be spawned.
SpawnError ==
  /\ phase = "piping"
  /\ ffmpeg.state = "failing"
  /\ ffmpeg' = [ffmpeg EXCEPT !.state = "failed"]
  /\ res' = IF ErrorResponds THEN JsonResponse(500) ELSE res
  /\ UNCHANGED <<player, store, phase, query, conn, stderrBuffer, calls>>

NextTranscode ==
  \/ \E u \in UrlValues, outcome \in SpawnOutcomes : Request(u, outcome)
  \/ StdoutData
  \/ StdoutEnd
  \/ StderrData
  \/ ClientClose
  \/ \E code \in ExitCodes : ProcessExit(code)
  \/ KilledExit
  \/ SpawnError

\* The route alone: the player of the browser stays as constructed.
InitTranscode == Init /\ hlsSupported /\ ~nativeHls /\ settings = [forceProxy |-> FALSE, forceTranscode |-> FALSE]

SpecTranscode == InitTranscode /\ [][NextTranscode]_vars

\* ================================================================ claims
\* The origin of a stream URL (scheme://host): its second token is the host.
OriginOf(url) == url[2].t

HasOrigin(url) == Len(url) >= 2

HostileOrigin(url) == HasOrigin(url) /\ OriginOf(url) \in proxyRequiredDomains

\* The request of the current session started in mode Relayed / Direct.
RelayFirst == ~sess.forceTranscode /\ (sess.forceProxy \/ HostileOrigin(sess.url))

DirectFirst ==
  ~sess.forceTranscode /\ ~sess.forceProxy /\ HasOrigin(sess.url) /\ ~HostileOrigin(sess.url)

\* Length of the Escalation Order of the current session's request.
OrderLen == IF sess.forceTranscode THEN 1 ELSE IF RelayFirst THEN 1 ELSE 2

EngineLoads == SelectSeq(loads, LAMBDA l : l.by = "engine")

LoadsOf(url) == {i \in 1..Len(loads) : loads[i].url = url}

\* C1: a play request made while forceTranscode is set attaches the element to
\* the transcode URL of the origin URL; in that session nothing else is ever
\* loaded (no direct URL, no relay URL) and no engine instance is attached.
C1_ForceTranscodeOnlyTranscodeUrl ==
  (sess.active /\ sess.forceTranscode) =>
     /\ \A i \in 1..Len(loads) :
           loads[i].by = "video" /\ loads[i].url = getTranscodeUrl(sess.url)
     /\ video.src = getTranscodeUrl(sess.url)
     /\ engines = {}

\* C2: a play request with no force flag and a non-hostile origin loads the
\* origin URL first; once a fatal network error has occurred in the session,
\* the relay URL of the origin has been loaded exactly once, and no transcode
\* URL has been loaded.
C2_DirectThenOneRelay ==
  (sess.active /\ DirectFirst) =>
     /\ loads[1].url = sess.url
     /\ errs.netFatal > 0 => Cardinality(LoadsOf(getProxiedUrl(sess.url))) = 1
     /\ LoadsOf(getTranscodeUrl(sess.url)) = {}

\* C3: a play request with forceProxy set or a CORS-hostile origin, and
\* forceTranscode unset, loads the relay URL first, and the bare origin URL
\* is never loaded into the engine or the element afterwards.
C3_RelayedNeverLoadsOrigin ==
  (session > 0 /\ RelayFirst) =>
     /\ loads[1].url = getProxiedUrl(sess.url)
     /\ \A i \in 1..Len(loads) : loads[i].url # sess.url
     /\ video.src # sess.url
     /\ \A e \in engines : e.source # sess.url

C3_Witness ==
  /\ sess.active /\ RelayFirst /\ ~sess.forceProxy
  /\ hls # 0 /\ errs.netFatal > 0
  /\ Engine(hls).source = getProxiedUrl(PlutoHls)

RelayedNetworkError(details) ==
  /\ isUsingProxy
  /\ errs'.n = errs.n + 1
  /\ HlsError(TRUE, NETWORK_ERROR, details)

DecodeError(type, details) ==
  /\ type = MEDIA_ERROR
  /\ ~(details = "fragParsingError" /\ ~isUsingProxy)
  /\ errs'.n = errs.n + 1
  /\ HlsError(TRUE, type, details)

Changes(seq) == Cardinality({i \in 2..Len(seq) : seq[i] # seq[i - 1]})

\* C7: while every counter-carrying fragment change since the attach came at
\* a playing, non-zero position, the corrective seeks issued are exactly the
\* changes of counter after the first one observed.
C7_SeeksAtCounterChanges ==
  frags.allPlaying => frags.seeks = Changes(frags.seen)

C7_Witness == frags.allPlaying /\ frags.seen = <<0, 0, 1, 1, 2>> /\ frags.seeks = 2

\* C8: at most one engine instance is live, and at most one is attached.
C8_AtMostOneEngine ==
  /\ Cardinality(engines) <= 1
  /\ Cardinality({e \in engines : e.attached}) <= 1
  /\ \A e \in engines : e.id = hls

C8_Witness == session = 2 /\ created >= 2 /\ hls = created /\ Cardinality(engines) = 1

\* C9: the rejection handler of a play() promise of a superseded session
\* changes neither the source, nor the relay flag, nor the play position.
C9_NoStaleCallbackEffect ==
  [][\A p \in promises :
       (PromiseRejected(p) /\ Stale(p)) =>
          /\ video'.src = video.src
          /\ video'.currentTime = video.currentTime
          /\ isUsingProxy' = isUsingProxy]_vars

\* C10 (as stated): the instance that loaded one mode's URL never loads the
\* next mode's URL.
C10_NextModeOnNewEngine ==
  \A i, j \in 1..Len(EngineLoads) : i # j => EngineLoads[i].eng # EngineLoads[j].eng

\* The escalation step of the ERROR handler.
Escalation(type, details) ==
  /\ RetriesViaProxy(type, details)
  /\ errs'.n = errs.n + 1
  /\ HlsError(TRUE, type, details)

\* C10 (amended): on escalation the instance that reported the failure stays
\* live and attached and itself loads the relay URL; none is created.
C10_EscalationReusesEngine ==
  [][\A k \in ErrorKinds :
       Escalation(k[1], k[2]) =>
          /\ hls' = hls
          /\ created' = created
          /\ engines' = {[Engine(hls) EXCEPT !.source = getProxiedUrl(currentUrl)]}
          /\ Engine(hls).attached]_vars

C10_Witness ==
  /\ sess.active /\ hls # 0 /\ Len(EngineLoads) = 2
  /\ EngineLoads[1].eng = hls /\ EngineLoads[2].eng = hls
  /\ engines = {NewEngine(hls, getProxiedUrl(sess.url))}

\* ------------------------------------------------ transcode route claims
\* C11: for a request that spawned a process, the close of the client
\* connection calls kill once and sends the process one SIGKILL, no more over
\* the whole request; a kill issued when the process has already gone (it
\* exited, or it never started) changes neither the child nor the response.
C11_CloseKillsOnce ==
  /\ [](calls.kill <= 1 /\ ffmpeg.signals <= 1)
  /\ [][(ClientClose /\ calls.handlers) =>
          /\ calls'.kill = calls.kill + 1
          /\ IF ffmpeg.state = "running"
               THEN ffmpeg' = [ffmpeg EXCEPT !.state = "killed", !.signals = 1]
               ELSE ffmpeg' = ffmpeg
          /\ res' = res]_vars

C11_Witness ==
  /\ conn = "closed" /\ calls.kill = 1
  /\ ffmpeg.state = "killed" /\ ffmpeg.signals = 1 /\ ffmpeg.code = "null"
  /\ res.bytes > 0 /\ ~res.finished

\* C12: once the client connection has closed, no process of the request is
\* running, whatever path the request took (rejected, spawn failed, spawn
\* error, exit with any code, disconnect mid-stream), and nothing more is
\* written to the response.
C12_NoProcessOutlivesRequest ==
  /\ [](conn = "closed" => ffmpeg.state \in {"none", "killed", "exited", "failed"})
  /\ [][conn = "closed" => res' = res]_vars

C12_Witness ==
  /\ conn = "closed" /\ phase = "piping"
  /\ ffmpeg.state = "killed" /\ ~ffmpeg.stdoutOpen
  /\ res.bytes = 1 /\ ~res.finished

\* The transcoder could not be started: spawn() threw, or the child reported
\* its spawn error.
SpawnFailed == phase = "spawnFailed" \/ ffmpeg.state = "failed"

\* C13: when the transcoder cannot be started (spawn throws, or the child
\* emits its spawn error), the client receives a 5xx JSON response, and no
\* status line and no body byte went out before it.
C13_SpawnFailureIs5xx ==
  /\ ffmpeg.state = "failing" => (~res.headersSent /\ res.bytes = 0)
  /\ SpawnFailed =>
       /\ res.statusCode >= 500
       /\ res.headersSent /\ res.finished
       /\ res.body = "json" /\ res.bytes = 0

C13_Witness ==
  /\ phase = "piping" /\ ffmpeg.state = "failed" /\ ~ffmpeg.stdoutOpen
  /\ res = JsonResponse(500) /\ calls.spawn = 1

\* The process ended by itself with a non-zero exit code.
FailedExit == ffmpeg.state = "exited" /\ ffmpeg.code \in ExitCodes \ {"0"}

\* C14: a non-zero exit before any byte was sent is answered with a 5xx
\* response, never with a successful empty one; a non-zero exit after bytes
\* were sent leaves the response as it is.
C14_NonZeroExitReported ==
  /\ []((FailedExit /\ res.bytes = 0 /\ res.finished) => res.statusCode >= 500)
  /\ [][\A code \in ExitCodes \ {"0"} :
          (ProcessExit(code) /\ res.bytes > 0) => res' = res]_vars

\* C15: a request whose url parameter is absent (or empty, which the handler
\* cannot tell from absent) is answered with status 400, calls spawn never
\* and registers no handler; every other request calls spawn exactly once.
C15_MissingUrlIs400 ==
  phase # "idle" =>
     IF query \in {"missing", "empty"}
       THEN /\ phase = "rejected"
            /\ res = JsonResponse(400)
            /\ calls = NoCalls
            /\ ffmpeg = NoProcess
            /\ stderrBuffer = 0
       ELSE /\ calls.spawn = 1
            /\ phase = "piping" <=> calls.handlers
            /\ phase = "piping" <=> ffmpeg # NoProcess

C15_Witness ==
  /\ phase = "rejected" /\ query = "missing" /\ conn = "closed"
  /\ res = JsonResponse(400)

\* A fixed limit on the retained standard error, below what a process can write.
StderrLimit == MaxStderr - 1

\* C18: the standard error retained for one request never exceeds a fixed
\* limit, however much the process writes, and none of it goes to the client.
C18_StderrBounded ==
  /\ stderrBuffer <= StderrLimit
  /\ res.body \in {"none", "json", "media"}

\* ------------------------------------------------- error indicator claims
\* The error indicator is on screen.
ErrorShown == overlay = "error"

\* The step is a play request (play() is what counts the requests).
PlayRequested == session' = session + 1

\* The request carries no stream URL while neither force flag is set.
WithoutUrl == sess'.url = UndefinedUrl /\ ~settings.forceProxy /\ ~settings.forceTranscode

TranscodedAttemptFails(p) ==
  /\ PromiseRejected(p)
  /\ ~Stale(p)
  /\ sess.forceTranscode
  /\ video.src = getTranscodeUrl(sess.url)

\* C17: when the last mode of a session, the Transcoded attempt, has failed,
\* the error indicator is shown (the session is Failed), and the handling of
\* the failure issues no reload, recovery or seek.
C17_FailedShowsIndicator ==
  [][\A p \in promises :
       TranscodedAttemptFails(p) =>
          /\ ErrorShown'
          /\ UNCHANGED <<video, engines, hls, loads, isUsingProxy>>]_vars

\* ------------------------------------------------------- recovery claims
\* A non-fatal decoder or buffer event delivered while the element is playing
\* at a non-zero position.
NonFatalWhilePlaying(type, details) ==
  /\ HlsError(FALSE, type, details)
  /\ type = MEDIA_ERROR
  /\ ActivelyPlaying

\* C19: every non-fatal decoder or buffer event delivered while playing (a
\* stalled buffer, a buffer-append error, a fragment-parsing error) is answered,
\* in the handling of the event, by exactly one recovery action: one call of the
\* engine's media-error recovery, or else one seek.
C19_OneRecoveryPerEvent ==
  [][\A k \in ErrorKinds :
       NonFatalWhilePlaying(k[1], k[2]) =>
          \/ /\ errs'.recovers = errs.recovers + 1
             /\ video'.currentTime = video.currentTime
          \/ /\ errs'.recovers = errs.recovers
             /\ video'.currentTime = video.currentTime + 1]_vars

\* The player on a browser with hls.js alone and the default settings, with
\* the non-fatal error events and the fragment-change events of the engine
\* delivered: the events whose handlers move the play position.
NextNudge ==
  \/ \E u \in PlayInputs : Play(u)
  \/ Stop
  \/ \E k \in ErrorKinds : HlsError(FALSE, k[1], k[2])
  \/ \E frag \in FragValues : FragChanged(frag)
  \/ ManifestParsed
  \/ TogglePause
  \/ Tick

InitNudge ==
  Init /\ hlsSupported /\ ~nativeHls /\ settings = [forceProxy |-> FALSE, forceTranscode |-> FALSE]

SpecNudge == InitNudge /\ [][NextNudge]_vars

\* The step is the handling of an engine error or of a fragment change (the
\* handlers are what counts the events of a request).
HandlerStep == errs'.n = errs.n + 1 \/ frags'.n = frags.n + 1

\* C20: a recovery or discontinuity handler moves the play position only when
\* the element is not paused and its position is greater than zero, and then
\* forward by one step; in every other state it leaves the element as it is.
C20_NudgeOnlyWhilePlaying ==
  [][HandlerStep =>
       /\ video'.src = video.src /\ video'.paused = video.paused
       /\ IF ActivelyPlaying
            THEN video'.currentTime \in {video.currentTime, video.currentTime + 1}
            ELSE video'.currentTime = video.currentTime]_vars

C20_Witness ==
  /\ errs.n = 2 /\ frags.n >= 3 /\ frags.seeks = 1
  /\ ~video.paused /\ video.currentTime = MaxTime
  /\ lastDiscontinuity = 1

\* ------------------------------------------------- classification claims
\* The session is Relayed: the attached engine has the relay URL loaded.
RelayedNow == hls # 0 /\ Delivers(hls) /\ Engine(hls).source[1] = ProxyPrefix

\* The handling of the event loaded a URL / called recoverMediaError.
Reloaded == loads' # loads

Recovered == errs'.recovers = errs.recovers + 1

\* C21: a fatal error is treated as network/CORS (the relay URL is loaded, as
\* long as the session is not Relayed yet, and no decoder recovery is called)
\* iff its type is network, or its type is media with detail fragParsingError
\* while the session is not Relayed; a fatal fragParsingError while Relayed, and
\* every other fatal media error, is answered by decoder recovery and no load.
C21_FatalErrorClassification ==
  [][\A k \in ErrorKinds :
       HlsError(TRUE, k[1], k[2]) =>
          IF k[1] = NETWORK_ERROR
            THEN ~Recovered /\ (Reloaded <=> ~RelayedNow)
            ELSE IF k[1] = MEDIA_ERROR /\ k[2] = "fragParsingError" /\ ~RelayedNow
            THEN Reloaded /\ ~Recovered
            ELSE IF k[1] = MEDIA_ERROR
            THEN Recovered /\ ~Reloaded
            ELSE ~Recovered /\ ~Reloaded]_vars

\* The branches of the ERROR handler that write to the console: the three
\* fatal branches, and the non-fatal branch for media errors.
Logs(fatal, type, details) == fatal \/ type = MEDIA_ERROR

\* The handling of the event acted: a load, a recovery call, or the indicator.
Acted == Reloaded \/ Recovered \/ ErrorShown'

\* C22: every error event the attached engine delivers is logged, and every
\* fatal one is also answered by a recovery call, an escalation or the error
\* indicator of the Failed state.
C22_NoErrorDropped ==
  [][\A fatal \in BOOLEAN, k \in ErrorKinds :
       HlsError(fatal, k[1], k[2]) =>
          /\ Logs(fatal, k[1], k[2])
          /\ fatal => Acted]_vars

\* ------------------------------------------------------ side-effect claims
Once == [nowPlaying |-> 1, epg |-> 1, channelChanged |-> 1]

\* The current request ended in the catch block of play().
RequestThrew == sess.url = UndefinedUrl /\ ~sess.forceProxy /\ ~sess.forceTranscode

\* C23 (as stated): each of the three side effects is performed once per
\* attach of the session: the initial one and every re-attach of an escalation.
C23_SideEffectsPerAttach ==
  session > 0 =>
     /\ effects.nowPlaying = Len(loads)
     /\ effects.epg = Len(loads)
     /\ effects.channelChanged = Len(loads)

\* C23 (amended): each of the three side effects is performed once per play
\* request that does not throw, in whatever mode it attaches, and never again
\* in the session, whatever is loaded later; a request that throws performs none.
C23_SideEffectsOncePerRequest ==
  session > 0 => effects = IF RequestThrew THEN NoEffects ELSE Once

C23_Witness ==
  /\ sess.active /\ hls # 0 /\ Len(EngineLoads) = 2 /\ RelayedNow
  /\ effects = Once

\* ---------------------------------------------------------- resolver claims
\* A stream of example.com whose path names pluto.tv.
PathPlutoHls ==
  <<Tok("https://"), Tok("example.com"), Tok("/mirror/"), Tok("pluto.tv"), Tok(".m3u8")>>

ResolverInputs == StreamUrls \cup {PathPlutoHls}

\* The player on a browser with hls.js alone, given stream URLs that differ in
\* their path only.
NextResolve ==
  \/ \E u \in ResolverInputs : Play(u)
  \/ Stop
  \/ ManifestParsed
  \/ TogglePause
  \/ Tick
  \/ \E s \in SettingsValues : UpdateSettings(s)

InitResolve == Init /\ hlsSupported /\ ~nativeHls

SpecResolve == InitResolve /\ [][NextResolve]_vars

\* The Delivery Mode a loaded URL stands for.
ModeOf(loaded) ==
  IF loaded[1] = TranscodePrefix THEN "Transcoded"
  ELSE IF loaded[1] = ProxyPrefix THEN "Relayed" ELSE "Direct"

\* Two consecutive play requests under the same settings for the same origin.
SameOriginAgain ==
  /\ PlayRequested
  /\ loads # <<>> /\ loads' # <<>>
  /\ sess'.forceProxy = sess.forceProxy /\ sess'.forceTranscode = sess.forceTranscode
  /\ OriginOf(sess'.url) = OriginOf(sess.url)

\* C24: under the same settings, two stream URLs with the same origin start
\* in the same Delivery Mode, whatever their paths contain.
C24_ModeDependsOnOriginOnly ==
  [][SameOriginAgain => ModeOf(loads'[1].url) = ModeOf(loads[1].url)]_vars

\* The URL loaded last for the current request.
LoadedUrl == loads[Len(loads)].url

\* C25: every URL loaded for the current play request is its origin stream
\* URL, bare or wrapped once by getProxiedUrl or getTranscodeUrl (no relay or
\* transcode URL is wrapped again, no other request's URL is wrapped), and
\* isUsingProxy is true exactly when the URL loaded last is a relay URL.
C25_RelayFlagMatchesLoadedUrl ==
  (session > 0 /\ loads # <<>>) =>
     /\ \A i \in 1..Len(loads) :
           loads[i].url \in {sess.url, getProxiedUrl(sess.url), getTranscodeUrl(sess.url)}
     /\ isUsingProxy <=> ModeOf(LoadedUrl) = "Relayed"

(***************************************************************************)
(* The JSON store (server/db.js).  The database is one JSON file, read     *)
(* whole by loadDb and rewritten whole by saveDb.  Lists are sequences in  *)
(* the order of their pushes; timestamps and password hashes, which no     *)
(* operation reads, are left out of the records.                           *)
(***************************************************************************)

\* loadDb: the parsed content of the file; the default database when the file
\* does not exist, and also when its content does not parse (the outer catch).
loadDb(file) ==
  IF file.st = "ENOENT" THEN EmptyDb
  ELSE IF file.st = "partial" THEN EmptyDb
  ELSE [sources |-> file.data.sources, hiddenItems |-> file.data.hiddenItems,
        favorites |-> file.data.favorites, settings |-> file.data.settings,
        users |-> file.data.users, nextId |-> file.data.nextId]

\* loadDb took its outer catch: the file exists and JSON.parse threw.
LoadFailed(file) == file.st = "partial"

\* The mutating operations called, each with the arguments it is called with.
OpKinds ==
  {"sources.create", "hiddenItems.hide", "hiddenItems.bulkHide", "favorites.add",
   "settings.update", "users.create"}

\* parseInt on the decimal strings ids arrive as in request parameters.
parseInt(string) ==
  CASE string = "1" -> 1
    [] string = "2" -> 2

\* The operation a call is a call of.
Op(kind) ==
  CASE kind \in {"users.create(guest)"} -> "users.create"
    [] kind \in {"users.update(2)"} -> "users.update"
    [] kind \in {"users.delete(1)", "users.delete(2)"} -> "users.delete"
    [] kind \in {"sources.delete(1)"} -> "sources.delete"
    [] kind \in {"hiddenItems.hide('1')", "hiddenItems.hide(2)"} -> "hiddenItems.hide"
    [] OTHER -> kind

ArgOf(kind) ==
  CASE kind = "sources.create" -> [name |-> "playlist"]
    [] kind = "sources.delete(1)" -> [id |-> parseInt("1")]
    [] kind = "hiddenItems.hide('1')" ->
         [source_id |-> parseInt("1"), item_type |-> "channel", item_id |-> "c1"]
    [] kind = "hiddenItems.hide(2)" -> [source_id |-> 2, item_type |-> "channel", item_id |-> "c2"]
    [] kind = "users.create(guest)" -> [username |-> "guest", role |-> "viewer"]
    [] kind = "users.update(2)" -> [id |-> parseInt("2"), updates |-> [username |-> "guest"]]
    [] kind = "users.delete(1)" -> [id |-> parseInt("1")]
    [] kind = "users.delete(2)" -> [id |-> parseInt("2")]
    [] kind = "hiddenItems.hide" -> [source_id |-> 1, item_type |-> "channel", item_id |-> "c1"]
    [] kind = "hiddenItems.bulkHide" ->
         <<[source_id |-> 1, item_type |-> "channel", item_id |-> "c1"],
           [source_id |-> 1, item_type |-> "channel", item_id |-> "c2"]>>
    [] kind = "favorites.add" -> [source_id |-> 1, item_id |-> "c1", item_type |-> "channel"]
    [] kind = "settings.update" -> [forceProxy |-> TRUE]
    [] kind = "users.create" -> [username |-> "admin", role |-> "admin"]

\* list.find / list.some with the key comparison of hide and add.
HasKey_Never(list, key) == FALSE

HasKey(list, key) ==
  \E i \in 1..Len(list) :
    /\ list[i].source_id = key.source_id
    /\ list[i].item_type = key.item_type
    /\ list[i].item_id = key.item_id

\* db.users.some(u => u.username === username)
HasUsername_Never(list, username) == FALSE

HasUsername(list, username) == \E i \in 1..Len(list) : list[i].username = username

\* list.findIndex(u => u.id === id), with 0 for the -1 of no match.
IndexOf(list, id) ==
  IF \E i \in 1..Len(list) : list[i].id = id
  THEN CHOOSE i \in 1..Len(list) : list[i].id = id /\ \A j \in 1..(i - 1) : list[j].id # id
  ELSE 0

\* list.splice(i, 1)
Splice(list, i) == SubSeq(list, 1, i - 1) \o SubSeq(list, i + 1, Len(list))

\* db.users.filter(u => u.role === 'admin').length
AdminCount(list) == Cardinality({i \in 1..Len(list) : list[i].role = "admin"})

\* users.delete: the user is an admin and there is no other one.
IsLastAdmin_Never(list, i) == FALSE

IsLastAdmin(list, i) == list[i].role = "admin" /\ AdminCount(list) <= 1

\* users.update: the username is being changed to one another user has.
\* An empty string is falsy and skips the check.
Renames(list, i, updates) ==
  /\ "username" \in DOMAIN updates
  /\ updates.username # ""
  /\ updates.username # list[i].username

\* { ...db.settings, ...newSettings }
Merged(old, new) ==
  [k \in DOMAIN old \cup DOMAIN new |-> IF k \in DOMAIN new THEN new[k] ELSE old[k]]

\* db.nextId++ leaves the counter one higher.
NextIdAfter_Same(db) == db.nextId

NextIdAfter(db) == db.nextId + 1

\* The error the operation throws before it changes anything, or "none".
Thrown(kind, db) ==
  LET arg == ArgOf(kind) IN
  CASE Op(kind) = "users.create" ->
         IF HasUsername(db.users, arg.username) THEN "Username already exists" ELSE "none"
    [] Op(kind) = "users.update" ->
         LET i == IndexOf(db.users, arg.id) IN
         IF i = 0 THEN "User not found"
         ELSE IF Renames(db.users, i, arg.updates) /\ HasUsername(db.users, arg.updates.username)
              THEN "Username already exists"
              ELSE "none"
    [] Op(kind) = "users.delete" ->
         LET i == IndexOf(db.users, arg.id) IN
         IF i = 0 THEN "User not found"
         ELSE IF IsLastAdmin(db.users, i) THEN "Cannot delete the last admin user"
              ELSE "none"
    [] OTHER -> "none"

\* The operation throws before it changes anything.
Rejects(kind, db) == Thrown(kind, db) # "none"

\* The forEach of bulkHide: every item not hidden yet is pushed with a new id.
RECURSIVE HideAll(_, _)
HideAll(db, items) ==
  IF items = <<>> THEN db
  ELSE LET item == Head(items)
           pushed == [db EXCEPT !.hiddenItems =
                                   Append(@, [id |-> db.nextId, source_id |-> item.source_id,
                                              item_type |-> item.item_type,
                                              item_id |-> item.item_id]),
                                !.nextId = NextIdAfter(db)]
       IN HideAll(IF HasKey(db.hiddenItems, item) THEN db ELSE pushed, Tail(items))

\* The operation changes its copy of the database and saves it.
Modifies(kind, db) ==
  CASE Op(kind) = "hiddenItems.hide" -> ~HasKey(db.hiddenItems, ArgOf(kind))
    [] kind = "hiddenItems.bulkHide" ->
         \E i \in 1..Len(ArgOf(kind)) : ~HasKey(db.hiddenItems, ArgOf(kind)[i])
    [] kind = "favorites.add" -> ~HasKey(db.favorites, ArgOf(kind))
    [] OTHER -> TRUE

\* The copy of the database the operation hands to saveDb.
Apply(kind, db) ==
  LET arg == ArgOf(kind) IN
  CASE kind = "sources.create" ->
         [db EXCEPT !.sources = Append(@, [id |-> db.nextId, name |-> arg.name, enabled |-> TRUE]),
                    !.nextId = NextIdAfter(db)]
    [] Op(kind) = "hiddenItems.hide" ->
         [db EXCEPT !.hiddenItems = Append(@, [id |-> db.nextId, source_id |-> arg.source_id,
                                               item_type |-> arg.item_type, item_id |-> arg.item_id]),
                    !.nextId = NextIdAfter(db)]
    [] kind = "hiddenItems.bulkHide" -> HideAll(db, arg)
    [] kind = "favorites.add" ->
         [db EXCEPT !.favorites = Append(@, [id |-> db.nextId, source_id |-> arg.source_id,
                                             item_id |-> arg.item_id, item_type |-> arg.item_type]),
                    !.nextId = NextIdAfter(db)]
    [] kind = "settings.update" ->
         [db EXCEPT !.settings = Merged(@, arg)]
    [] Op(kind) = "users.create" ->
         [db EXCEPT !.users = Append(@, [id |-> db.nextId, username |-> arg.username, role |-> arg.role]),
                    !.nextId = NextIdAfter(db)]
    [] Op(kind) = "users.update" ->
         [db EXCEPT !.users[IndexOf(db.users, arg.id)] = Merged(@, arg.updates)]
    [] Op(kind) = "users.delete" ->
         [db EXCEPT !.users = Splice(@, IndexOf(db.users, arg.id))]
    [] Op(kind) = "sources.delete" ->
         [db EXCEPT !.sources = SelectSeq(@, LAMBDA r : r.id # arg.id),
                    !.hiddenItems = SelectSeq(@, LAMBDA h : h.source_id # arg.id)]

\* A request calls a store operation, which awaits loadDb.
CallOp(p, kind) ==
  /\ ops[p].pc = "idle"
  /\ hist.calls < MaxOps
  /\ ops' = [ops EXCEPT ![p] = [pc |-> "loading", kind |-> kind]]
  /\ hist' = [hist EXCEPT !.calls = @ + 1]
  /\ UNCHANGED <<player, route, dbFile, tmpFile, writeQueue>>

\* A write that is past its start and not over yet.
InProgress(i) == writeQueue[i].st \in {"writing", "written", "failed"}

\* The writes that are past their start and not over yet.
Running == {i \in 1..Len(writeQueue) : InProgress(i)}

\* saveDb(data): the write is chained onto writeQueue; the caller awaits it.
saveDb(p, data) ==
  /\ writeQueue' = Append(writeQueue, [caller |-> p, data |-> data, seq |-> hist.saves + 1,
                                      st |-> "queued"])
  /\ ops' = [ops EXCEPT ![p].pc = "saving"]
  /\ hist' = [hist EXCEPT !.saves = @ + 1, !.lastData = data, !.lastFailed = FALSE,
                          !.badLoads = IF LoadFailed(dbFile) THEN @ + 1 ELSE @,
                          !.raced = @ \/ Running # {}]

\* readFile resolves: the operation gets the database as the file holds it now,
\* runs up to its next await, and either returns, throws or awaits saveDb.
Loaded(p) ==
  /\ ops[p].pc = "loading"
  /\ LET db == loadDb(dbFile)
         kind == ops[p].kind
     IN IF Rejects(kind, db) \/ ~Modifies(kind, db)
        THEN /\ ops' = [ops EXCEPT ![p] = Idle]
             /\ hist' = [hist EXCEPT !.thrown = IF Rejects(kind, db) THEN @ + 1 ELSE @,
                                     !.error = IF Rejects(kind, db) THEN Thrown(kind, db) ELSE @,
                                     !.badLoads = IF LoadFailed(dbFile) THEN @ + 1 ELSE @,
                                     !.raced = @ \/ Running # {}]
             /\ UNCHANGED writeQueue
        ELSE saveDb(p, Apply(kind, db))
  /\ UNCHANGED <<player, route, dbFile, tmpFile>>

\* writeQueue.then: a write starts when every write chained before it is over.
CanStart_Any(i) == TRUE

CanStart(i) == i = 1 /\ ~hist.rejected

\* The path writeFile writes to: tmpPath.
WriteTarget_DbPath == "db"

WriteTarget == "tmp"

\* The file at the path writeFile writes to gets the given content.
Written(content) ==
  IF WriteTarget = "tmp"
  THEN tmpFile' = content /\ UNCHANGED dbFile
  ELSE dbFile' = content /\ UNCHANGED tmpFile

RemoveAt(q, i) == SubSeq(q, 1, i - 1) \o SubSeq(q, i + 1, Len(q))

\* The queued callback runs: writeFile opens and truncates its file.
WriteFile(i) ==
  /\ i \in 1..Len(writeQueue)
  /\ writeQueue[i].st = "queued"
  /\ CanStart(i)
  /\ writeQueue' = [writeQueue EXCEPT ![i].st = "writing"]
  /\ Written(Partial)
  /\ UNCHANGED <<player, route, ops, hist>>

\* writeFile resolves: the file holds JSON.stringify(data).
WriteFileDone(i) ==
  /\ i \in 1..Len(writeQueue)
  /\ writeQueue[i].st = "writing"
  /\ writeQueue' = [writeQueue EXCEPT ![i].st = "written"]
  /\ Written(Complete(writeQueue[i].data))
  /\ UNCHANGED <<player, route, ops, hist>>

\* writeFile rejects, leaving a part of the content or no file at all.
WriteFileFails(i, left) ==
  /\ i \in 1..Len(writeQueue)
  /\ writeQueue[i].st = "writing"
  /\ hist.failures < MaxFailures
  /\ writeQueue' = [writeQueue EXCEPT ![i].st = "failed"]
  /\ Written(left)
  /\ hist' = [hist EXCEPT !.failures = @ + 1]
  /\ UNCHANGED <<player, route, ops>>

\* The .catch chained behind the callback logs the error, so that the promise
\* kept in writeQueue and returned to the caller is never a rejected one.
Swallows_Never == FALSE

Swallows == TRUE

\* The write is over: it leaves the chain and the promise its caller awaits settles.
Settle(i, ok) ==
  LET w == writeQueue[i] IN
  /\ writeQueue' = RemoveAt(writeQueue, i)
  /\ ops' = [ops EXCEPT ![w.caller] = Idle]
  /\ hist' = [hist EXCEPT !.order = Append(@, w.seq),
                          !.applied = IF ok THEN Append(@, ops[w.caller].kind) ELSE @,
                          !.lastFailed = IF w.seq = hist.saves THEN ~ok ELSE @,
                          !.thrown = IF ok \/ Swallows THEN @ ELSE @ + 1,
                          !.rejected = IF ok THEN @ ELSE ~Swallows]

\* rename(tmpPath, dbPath): the temp file replaces the database file in one step.
Rename(i) ==
  /\ i \in 1..Len(writeQueue)
  /\ writeQueue[i].st = "written"
  /\ tmpFile # Missing
  /\ dbFile' = tmpFile
  /\ tmpFile' = Missing
  /\ Settle(i, TRUE)
  /\ UNCHANGED <<player, route>>

\* rename rejects: there is no temp file to rename, or the file system fails.
RenameFails(i) ==
  /\ i \in 1..Len(writeQueue)
  /\ writeQueue[i].st = "written"
  /\ tmpFile = Missing \/ hist.failures < MaxFailures
  /\ writeQueue' = [writeQueue EXCEPT ![i].st = "failed"]
  /\ hist' = [hist EXCEPT !.failures = IF tmpFile = Missing THEN @ ELSE @ + 1]
  /\ UNCHANGED <<player, route, dbFile, tmpFile, ops>>

\* The catch of the queued callback: log, unlink the temp file (an unlink of
\* a missing file is ignored), rethrow into the catch chained behind it.
Unlink(i) ==
  /\ i \in 1..Len(writeQueue)
  /\ writeQueue[i].st = "failed"
  /\ tmpFile' = Missing
  /\ Settle(i, FALSE)
  /\ UNCHANGED <<player, route, dbFile>>

NextDb ==
  \/ \E p \in Procs, kind \in OpKinds : CallOp(p, kind)
  \/ \E p \in Procs : Loaded(p)
  \/ \E i \in 1..Len(writeQueue) : WriteFile(i)
  \/ \E i \in 1..Len(writeQueue) : WriteFileDone(i)
  \/ \E i \in 1..Len(writeQueue), left \in {Partial, Missing} : WriteFileFails(i, left)
  \/ \E i \in 1..Len(writeQueue) : Rename(i)
  \/ \E i \in 1..Len(writeQueue) : RenameFails(i)
  \/ \E i \in 1..Len(writeQueue) : Unlink(i)

\* The store when the server starts: no database file yet, a player that is
\* not playing and no transcode request.
InitDb ==
  /\ Init
  /\ hlsSupported
  /\ ~nativeHls
  /\ settings = [forceProxy |-> FALSE, forceTranscode |-> FALSE]

SpecDb == InitDb /\ [][NextDb]_vars

(***************************************************************************)
(* Claims about the JSON store.                                            *)
(***************************************************************************)

\* No store operation is running and no write is pending.
Quiescent == writeQueue = <<>> /\ \A p \in Procs : ops[p].pc = "idle"

\* How many operations of the kind had their database renamed into place.
Applied(kind) == Cardinality({i \in 1..Len(hist.applied) : hist.applied[i] = kind})

\* The database shows the effect of the operations of the kind applied so far.
Holds(kind, db) ==
  CASE kind = "sources.create" -> Len(db.sources) >= Applied(kind)
    [] kind = "hiddenItems.hide" -> HasKey(db.hiddenItems, ArgOf(kind))
    [] kind = "hiddenItems.bulkHide" ->
         \A i \in 1..Len(ArgOf(kind)) : HasKey(db.hiddenItems, ArgOf(kind)[i])
    [] kind = "favorites.add" -> HasKey(db.favorites, ArgOf(kind))
    [] kind = "settings.update" -> \A k \in DOMAIN ArgOf(kind) : db.settings[k] = ArgOf(kind)[k]
    [] kind = "users.create" -> HasUsername(db.users, ArgOf(kind).username)

\* C26: no lost update: once the store operations called have completed,
\* overlapping or not, the persisted database contains the effect of every
\* one of them whose write was put in place.
C26_NoLostUpdate ==
  Quiescent => \A i \in 1..Len(hist.applied) : Holds(hist.applied[i], loadDb(dbFile))

\* The records of a database that carry an id, list after list.
Records(db) == db.sources \o db.hiddenItems \o db.favorites \o db.users

HoldsLastData == (hist.saves > 0 /\ ~hist.lastFailed) => dbFile = Complete(hist.lastData)

\* C28: writes are serialized: at most one write-temp-then-rename sequence is in
\* progress at any time, the sequences run in the order of the saveDb calls (the
\* running one is the oldest pending call, and they end in call order), and
\* when all are over the file holds the data of the last call (given that its
\* write did not fail).
C28_WritesSerialized ==
  /\ Cardinality(Running) <= 1
  /\ \A i \in Running : \A j \in 1..Len(writeQueue) : writeQueue[i].seq <= writeQueue[j].seq
  /\ \A i, j \in 1..Len(hist.order) : i < j => hist.order[i] < hist.order[j]
  /\ Quiescent => HoldsLastData

\* Two saveDb calls are pending together, the first one renamed next, the second
\* one waiting for it.
C28_Witness ==
  /\ Len(writeQueue) = 2
  /\ writeQueue[1].st = "written"
  /\ writeQueue[2].st = "queued"
  /\ writeQueue[1].data # writeQueue[2].data

\* The database file is replaced by the complete data of the write being renamed.
ReplacedWhole ==
  \E i \in 1..Len(writeQueue) :
    /\ writeQueue[i].st = "written"
    /\ dbFile' = Complete(writeQueue[i].data)

\* C29: atomic replacement: the database file never holds a partially written
\* content, it changes only from one complete content to the next, and it
\* never goes missing again, so a loadDb running concurrently with a saveDb
\* reads the complete previous or the complete new content and never takes
\* the fallback to the default database.
C29_AtomicReplacement ==
  /\ [](dbFile.st # "partial" /\ hist.badLoads = 0)
  /\ [][dbFile' # dbFile => ReplacedWhole]_vars

\* A loadDb has resolved while a write was in progress, and a write is in
\* progress now: the temp file is partly written beside a complete database file.
C29_Witness ==
  /\ hist.raced
  /\ dbFile.st = "complete"
  /\ tmpFile = Partial
  /\ Len(writeQueue) = 2
  /\ writeQueue[1].st = "writing"

\* A failed write is settled: it leaves the chain without having been applied.
FailedSettles ==
  /\ Len(hist'.order) = Len(hist.order) + 1
  /\ Len(hist'.applied) = Len(hist.applied)

\* The promise the caller of the failed write awaits resolves: the caller
\* goes on and returns, and no error is thrown to it.
CallerResolved ==
  \E i \in 1..Len(writeQueue) :
    /\ writeQueue[i].st = "failed"
    /\ writeQueue' = RemoveAt(writeQueue, i)
    /\ ops[writeQueue[i].caller].pc = "saving"
    /\ ops'[writeQueue[i].caller].pc = "idle"
    /\ hist'.thrown = hist.thrown

\* Some pending write is running or free to start.
QueueMoves ==
  \E i \in 1..Len(writeQueue) : InProgress(i) \/ (writeQueue[i].st = "queued" /\ CanStart(i))

Writes ==
  \/ \E i \in 1..Len(writeQueue) : WriteFile(i)
  \/ \E i \in 1..Len(writeQueue) : WriteFileDone(i)
  \/ \E i \in 1..Len(writeQueue), left \in {Partial, Missing} : WriteFileFails(i, left)
  \/ \E i \in 1..Len(writeQueue) : Rename(i)
  \/ \E i \in 1..Len(writeQueue) : RenameFails(i)
  \/ \E i \in 1..Len(writeQueue) : Unlink(i)

\* The database after users.create of two admins, "admin" and "root".
UsersDb ==
  [EmptyDb EXCEPT !.users = <<[id |-> 1, username |-> "admin", role |-> "admin"],
                              [id |-> 2, username |-> "root", role |-> "admin"]>>,
                  !.nextId = 3]

\* The user operations called: create "admin" or "guest", rename user 2 to
\* "guest", delete user 1 or user 2.
UserCalls ==
  {"users.create", "users.create(guest)", "users.update(2)", "users.delete(1)", "users.delete(2)"}

NextUsers ==
  \/ \E p \in Procs, kind \in UserCalls : CallOp(p, kind)
  \/ \E p \in Procs : Loaded(p)
  \/ Writes

InitUsers ==
  /\ Started
  /\ hlsSupported
  /\ ~nativeHls
  /\ settings = [forceProxy |-> FALSE, forceTranscode |-> FALSE]
  /\ dbFile = Complete(UsersDb)

SpecUsers == InitUsers /\ [][NextUsers]_vars

\* The persisted list of users.
PersistedUsers == loadDb(dbFile).users

\* A request gets its database from loadDb and goes on to its next await.
Loads(p) == ops[p].pc = "loading" /\ ops'[p].pc # "loading"

\* The request's operation threw the error and left the store as it was:
\* nothing queued for writing, no file touched.
Fails(p, error) ==
  /\ ops'[p] = Idle
  /\ hist'.thrown = hist.thrown + 1
  /\ hist'.error = error
  /\ UNCHANGED <<dbFile, tmpFile, writeQueue>>

\* The request deletes the only admin the persisted database has.
DeletesLastAdmin(p) ==
  /\ Op(ops[p].kind) = "users.delete"
  /\ \E i \in 1..Len(PersistedUsers) :
       /\ PersistedUsers[i].id = ArgOf(ops[p].kind).id
       /\ PersistedUsers[i].role = "admin"
  /\ AdminCount(PersistedUsers) = 1

\* C31: the last admin is never removed: a persisted user set with an admin
\* keeps an admin whatever users.delete calls run, overlapping or not, and a
\* delete that would remove the last admin fails with 'Cannot delete the last
\* admin user' and leaves the database unchanged.
C31_LastAdminKept ==
  /\ [][AdminCount(PersistedUsers) >= 1 => AdminCount(loadDb(dbFile').users) >= 1]_vars
  /\ [][\A p \in Procs : (Loads(p) /\ DeletesLastAdmin(p))
          => Fails(p, "Cannot delete the last admin user")]_vars

\* One admin was deleted, the delete of the other one was refused, and the
\* persisted database keeps that admin.
C31_Witness ==
  /\ Quiescent
  /\ hist.error = "Cannot delete the last admin user"
  /\ \E i \in 1..Len(hist.applied) : Op(hist.applied[i]) = "users.delete"
  /\ AdminCount(PersistedUsers) = 1

\* Some persisted user other than the one with the id has the username.
TakenByOther(username, id) ==
  \E i \in 1..Len(PersistedUsers) :
    PersistedUsers[i].username = username /\ PersistedUsers[i].id # id

\* The request creates a user, or renames one, with a username that another
\* persisted user has.
TakesExistingName(p) ==
  LET arg == ArgOf(ops[p].kind) IN
  \/ Op(ops[p].kind) = "users.create" /\ TakenByOther(arg.username, 0)
  \/ /\ Op(ops[p].kind) = "users.update"
     /\ \E i \in 1..Len(PersistedUsers) : PersistedUsers[i].id = arg.id
     /\ TakenByOther(arg.updates.username, arg.id)

HiddenCalls ==
  {"hiddenItems.hide", "hiddenItems.hide('1')", "hiddenItems.bulkHide", "favorites.add"}

NextHidden ==
  \/ \E p \in Procs, kind \in HiddenCalls : CallOp(p, kind)
  \/ \E p \in Procs : Loaded(p)
  \/ Writes

SpecHidden == InitDb /\ [][NextHidden]_vars

\* No two entries of the list have the same (source id, item type, item id).
OnePerKey(list) ==
  \A i, j \in 1..Len(list) :
    i # j => <<list[i].source_id, list[i].item_type, list[i].item_id>>
               # <<list[j].source_id, list[j].item_type, list[j].item_id>>

\* Every item the request's call names is in the persisted list already.
AlreadyInEffect(p) ==
  LET kind == ops[p].kind
      arg == ArgOf(kind)
      db == loadDb(dbFile)
      In(list, key) == \E i \in 1..Len(list) :
                         <<list[i].source_id, list[i].item_type, list[i].item_id>>
                           = <<key.source_id, key.item_type, key.item_id>>
  IN CASE Op(kind) = "hiddenItems.hide" -> In(db.hiddenItems, arg)
       [] Op(kind) = "hiddenItems.bulkHide" -> \A k \in 1..Len(arg) : In(db.hiddenItems, arg[k])
       [] Op(kind) = "favorites.add" -> In(db.favorites, arg)
       [] OTHER -> FALSE

\* The request returns and the store is as it was: nothing queued for
\* writing (no new entry, no id consumed), no file touched, no error.
ChangesNothing(p) ==
  /\ ops'[p] = Idle
  /\ hist'.thrown = hist.thrown
  /\ UNCHANGED <<dbFile, tmpFile, writeQueue>>

SourcesDb ==
  [EmptyDb EXCEPT !.sources = <<[id |-> 1, name |-> "playlist", enabled |-> TRUE],
                                [id |-> 2, name |-> "playlist", enabled |-> TRUE]>>,
                  !.hiddenItems = <<[id |-> 3, source_id |-> 1, item_type |-> "channel",
                                     item_id |-> "c1"],
                                    [id |-> 4, source_id |-> 2, item_type |-> "channel",
                                     item_id |-> "c1"]>>,
                  !.nextId = 5]

\* The operations called: delete source 1, hide an item of source 2, create
\* another source.
SourceCalls == {"sources.delete(1)", "hiddenItems.hide(2)", "sources.create"}

NextSources ==
  \/ \E p \in Procs, kind \in SourceCalls : CallOp(p, kind)
  \/ \E p \in Procs : Loaded(p)
  \/ Writes

InitSources ==
  /\ Started
  /\ hlsSupported
  /\ ~nativeHls
  /\ settings = [forceProxy |-> FALSE, forceTranscode |-> FALSE]
  /\ dbFile = Complete(SourcesDb)

SpecSources == InitSources /\ [][NextSources]_vars

\* A sources.delete completes: its database is renamed into place.
DeleteCompletes ==
  /\ Len(hist'.applied) = Len(hist.applied) + 1
  /\ Op(hist'.applied[Len(hist'.applied)]) = "sources.delete"

\* C34: sources.delete cascades: when sources.delete(id) completes, the
\* persisted database is the one persisted before without the source and
\* without the hidden items of that source: these are gone and every other
\* source and hidden item is as it was.
C34_DeleteCascades ==
  [][DeleteCompletes =>
       LET id == ArgOf(hist'.applied[Len(hist'.applied)]).id
           before == loadDb(dbFile)
           after == loadDb(dbFile')
       IN /\ after.sources = SelectSeq(before.sources, LAMBDA r : r.id # id)
          /\ after.hiddenItems = SelectSeq(before.hiddenItems, LAMBDA h : h.source_id # id)]_vars

====
